---- MODULE Spec2Model ----
(***************************************************************************)
(* A model of MindmapView (src/src/mindmap-view.ts): the view's fields,    *)
(* its event handlers, the asynchronous update cycle with its two          *)
(* suspension points, the debounced editor-change callback, and the fence  *)
(* sanitiser as a function on character sequences.                         *)
(*                                                                         *)
(* Time is in ms and advances by ticks; a timer is kept as the time that   *)
(* remains until it fires, and time cannot pass a timer that is due.       *)
(***************************************************************************)
EXTENDS Integers, Sequences, FiniteSets, TLC

\* ------------------------------------------------------------------ bounds

\* update cycles started in one behaviour
MaxCycles == 2
\* lines of a sanitiser input
MaxLines == 3
\* the clock "time since the last editor-change event" saturates after this
\* many ticks
MaxGapTicks == 7
\* the largest number of click handlers on one toggle circle
MaxHandlers == 3
\* the largest depth of a node whose colour is examined
MaxDepth == 4

\* -------------------------------------------------------- program constants

\* debounce(editorChange, 300, true)
DebounceTimeout == 300
\* setTimeout(() => this.applyWidths(), 100) in update
StylingDelay == 100
\* setTimeout(() => this.applyWidths(), 50) in the toggle click handler
ToggleDelay == 50

RECURSIVE GCD(_, _)
GCD(a, b) == IF b = 0 THEN a ELSE GCD(b, a % b)

\* one tick of the clock, in ms: the common measure of the program's delays
Tick == GCD(DebounceTimeout, GCD(StylingDelay, ToggleDelay))

\* ------------------------------------------------------------ characters

\* the backtick character
BT == "BT"
NL == "\n"
SP == " "

Min(S) == CHOOSE x \in S : \A y \in S : x <= y
Max(S) == CHOOSE x \in S : \A y \in S : x >= y

\* const allowedLanguages = ["js", "javascript", "css", "html"]
allowedLanguages ==
  { <<"j", "s">>,
    <<"j", "a", "v", "a", "s", "c", "r", "i", "p", "t">>,
    <<"c", "s", "s">>,
    <<"h", "t", "m", "l">> }

\* the length of the greedy match of BT* at the head of s
BacktickRun(s) ==
  CHOOSE k \in 0..Len(s) :
    /\ \A i \in 1..k : s[i] = BT
    /\ (k = Len(s) \/ s[k + 1] # BT)

\* String.prototype.trim
Trim(s) ==
  LET keep == { i \in 1..Len(s) : s[i] \notin {SP, NL} }
  IN  IF keep = {} THEN <<>> ELSE SubSeq(s, Min(keep), Max(keep))

\* the positions where /BT BT BT (.+)/ matches: three backticks followed by at
\* least one character that is not a line terminator
FenceMatches(markdown) ==
  { i \in 1..(Len(markdown) - 3) :
      /\ markdown[i] = BT /\ markdown[i + 1] = BT /\ markdown[i + 2] = BT
      /\ markdown[i + 3] # NL }

\* the last position of the greedy (.+) that starts at position from
CaptureEnd(markdown, from) ==
  Max({ j \in from..Len(markdown) : \A k \in from..j : markdown[k] # NL })

\* the replacer callback of sanitiseMarkdown, applied to the capture group
SanitiseCapture(capture) ==
  LET n == BacktickRun(capture)
      backticks == SubSeq(capture, 1, n)
      infoString == SubSeq(capture, n + 1, Len(capture))
      t == Trim(infoString)
      sanitisedInfoString == IF t \in allowedLanguages THEN t ELSE <<>>
  IN  <<BT, BT, BT>> \o backticks \o sanitisedInfoString

\* markdown.replace(/BT BT BT (.+)/, ...): the regular expression has no g flag,
\* so only the leftmost match is replaced
sanitiseMarkdown(markdown) ==
  IF FenceMatches(markdown) = {} THEN markdown
  ELSE LET i == Min(FenceMatches(markdown))
           j == CaptureEnd(markdown, i + 3)
       IN  SubSeq(markdown, 1, i - 1)
             \o SanitiseCapture(SubSeq(markdown, i + 3, j))
             \o SubSeq(markdown, j + 1, Len(markdown))

\* ------------------------------------------------- fences of a text (C10)

\* positions where a line begins
LineStarts(T) == { i \in 1..Len(T) : i = 1 \/ T[i - 1] = NL }

LineAt(T, i) == SubSeq(T, i, IF T[i] = NL THEN i - 1 ELSE CaptureEnd(T, i))

\* a fence is a line that begins with a run of at least three backticks
FenceStarts(T) == { i \in LineStarts(T) : BacktickRun(LineAt(T, i)) >= 3 }

\* the k-th smallest element of a set of numbers
RECURSIVE Nth(_, _)
Nth(S, k) == IF k = 1 THEN Min(S) ELSE Nth(S \ {Min(S)}, k - 1)

\* the fences of T in order, each with its backtick run and language tag
Fences(T) ==
  [ k \in 1..Cardinality(FenceStarts(T)) |->
      LET line == LineAt(T, Nth(FenceStarts(T), k))
          run == BacktickRun(line)
      IN  [ run |-> run, tag |-> Trim(SubSeq(line, run + 1, Len(line))) ] ]

\* ------------------------------------------------------ sanitiser inputs

LineKinds ==
  { <<BT, BT, BT>>,
    <<BT, BT, BT, "j", "s">>,
    <<BT, BT, BT, "p", "y">>,
    <<BT, BT, BT, BT, "p", "y">>,
    <<BT, BT, BT, SP, "j", "s", SP>>,
    <<"x">> }

RECURSIVE JoinLines(_)
JoinLines(ls) ==
  IF Len(ls) = 0 THEN <<>>
  ELSE IF Len(ls) = 1 THEN ls[1]
  ELSE ls[1] \o <<NL>> \o JoinLines(Tail(ls))

SanInputs ==
  { JoinLines(ls) : ls \in UNION { [1..n -> LineKinds] : n \in 1..MaxLines } }

\* ------------------------------------------------------- values of the view

Docs == {"d1", "d2"}
\* this.file before onOpen, or when the workspace has no active file
NoFile == "none"
\* the value undefined, where a text or a title is expected
Undefined == << "undefined" >>
\* the value undefined, where a leaf is expected
NoLeaf == "undefined"
NoTimer == -1
NoData == <<>>
\* the promise of transformMarkdown was rejected
Threw == <<"threw">>

\* texts of an editor or a vault file: empty, plain, with a code fence
Texts == { <<>>, <<"x">>, <<BT, BT, BT, "p", "y">> }

Groups == {"g1", "g2"}
NoGroup == "null"
MM_VIEW_TYPE == "markmap"
MD_VIEW_TYPE == "markdown"

\* workspace.getGroupLeaves(group)
getGroupLeaves(group) ==
  IF group = "g1"
  THEN << [id |-> "l1", type |-> MD_VIEW_TYPE], [id |-> "l2", type |-> MM_VIEW_TYPE],
          [id |-> "l3", type |-> MM_VIEW_TYPE] >>
  ELSE << [id |-> "l4", type |-> MD_VIEW_TYPE] >>

\* this.settings: the colouring mode and the configured colours; the settings
\* read with ?? (initialExpandLevel, maxWidth, animationDuration) are not set
DefaultSettings ==
  [coloring |-> "depth", defaultColor |-> "#def",
   color1 |-> "#c1", color2 |-> "#c2", color3 |-> "#c3"]
SettingsSet ==
  { [DefaultSettings EXCEPT !.coloring = m] : m \in {"depth", "branch", "single"} }

\* frontmatter?.markmap of a document: none, a palette, a width, a solid
\* colour with a width and the zoom switch
NoFrontmatter == [k \in {} |-> 0]
Frontmatters ==
  { NoFrontmatter,
    [color |-> << "#111", "#222" >>],
    [maxWidth |-> 300],
    [color |-> << "#111" >>, maxWidth |-> 300, zoom |-> FALSE] }

\* frontmatter?.color
frontmatterColor(frontmatter) ==
  IF "color" \in DOMAIN frontmatter THEN frontmatter["color"] ELSE <<>>

\* the colour functions, as values: this.applyColor.bind(this), the closure
\* that applyColor(frontmatterColors) returns, and the two functions that
\* deriveOptions makes of a palette
BoundApplyColor == [fn |-> "applyColor.bind", colors |-> <<>>]
ApplyColorClosure(frontmatterColors) == [fn |-> "applyColor", colors |-> frontmatterColors]
SolidColor(palette) == [fn |-> "solid", colors |-> palette]
OrdinalColor(palette) == [fn |-> "ordinal", colors |-> palette]

\* a closure that treats a front-matter palette like the configured colours
applyColorNoCycle(s, frontmatterColors, depth) ==
  IF s.coloring = "single" THEN s.defaultColor
  ELSE LET colors == IF Len(frontmatterColors) > 0 THEN frontmatterColors
                     ELSE << s.color1, s.color2, s.color3 >>
       IN  IF depth < Len(colors) THEN colors[depth + 1] ELSE s.defaultColor

\* the closure of applyColor (lines 289-301), called for a node at depth
applyColor(s, frontmatterColors, depth) ==
  IF s.coloring = "single" THEN s.defaultColor
  ELSE LET colors == IF Len(frontmatterColors) > 0 THEN frontmatterColors
                     ELSE << s.color1, s.color2, s.color3 >>
       IN  IF Len(frontmatterColors) > 0 THEN colors[(depth % Len(colors)) + 1]
           ELSE IF depth < Len(colors) THEN colors[depth + 1]
           ELSE s.defaultColor

\* what the renderer can get when it calls its colour function for a node at
\* depth: applyColor.bind(this) called with a node returns a closure, not a
\* colour; the ordinal scale gives a colour of the palette by the node's path
ColorsAt(f, s, depth) ==
  IF f.fn = "applyColor.bind" THEN { "function" }
  ELSE IF f.fn = "applyColor" THEN { applyColor(s, f.colors, depth) }
  ELSE IF f.fn = "solid" THEN { f.colors[1] }
  ELSE { f.colors[i] : i \in 1..Len(f.colors) }

\* deriveOptions(frontmatter?.markmap) of markmap-view: the number and boolean
\* keys are copied, a palette becomes a colour function
deriveOptions(json) ==
  LET copied == [ k \in DOMAIN json \cap
                         {"duration", "maxWidth", "initialExpandLevel", "zoom", "pan"}
                  |-> json[k] ]
      palette == frontmatterColor(json)
  IN  IF Len(palette) = 1 THEN [color |-> SolidColor(palette)] @@ copied
      ELSE IF Len(palette) > 1 THEN [color |-> OrdinalColor(palette)] @@ copied
      ELSE copied

\* the options of createMarkmapSvg and of renderMarkmap
CreateOptions == [autoFit |-> FALSE, duration |-> 500, color |-> BoundApplyColor]
RenderOptions ==
  [autoFit |-> FALSE, initialExpandLevel |-> -1, maxWidth |-> 0, duration |-> 500]

\* { color, ...frontmatterOptions }: the second parameter of renderMarkmap
frontmatterOptions(markmapOptions) ==
  [ k \in DOMAIN markmapOptions \ {"color"} |-> markmapOptions[k] ]

\* colorFn of renderMarkmap (lines 351-354): a set, empty when undefined
colorFn(s, markmapOptions, frontmatter) ==
  IF s.coloring = "depth" THEN { ApplyColorClosure(frontmatterColor(frontmatter)) }
  ELSE IF "color" \in DOMAIN markmapOptions THEN { markmapOptions["color"] }
  ELSE {}

\* this.options as renderMarkmap builds it (lines 356-372)
renderMarkmapOptions(s, frontmatter) ==
  LET fns == colorFn(s, deriveOptions(frontmatter), frontmatter)
  IN  IF fns = {} THEN RenderOptions
      ELSE [color |-> CHOOSE f \in fns : TRUE] @@ RenderOptions

\* an options object in which the preferences win over the front-matter
PushedPreferencesLast(s, frontmatter) ==
  renderMarkmapOptions(s, frontmatter) @@ frontmatterOptions(deriveOptions(frontmatter))

\* the second argument of setData in renderMarkmap (lines 381-384):
\* { ...this.options, ...frontmatterOptions }
PushedOptions(s, frontmatter) ==
  frontmatterOptions(deriveOptions(frontmatter)) @@ renderMarkmapOptions(s, frontmatter)

\* Markmap.setOptions, called by setData: the options given are merged into
\* the options the renderer has
setOptions(current, opts) == opts @@ current

\* whether a node at depth 1 is folded when the renderer initialises the
\* tree with initialExpandLevel
Folded(initialExpandLevel) == initialExpandLevel \in {0, 1}

\* the subscriptions: e is the emitter the handler was registered on
EditorChangeRef == [e |-> "workspace", name |-> "editor-change"]
FileOpenRef == [e |-> "workspace", name |-> "file-open"]
PinnedUpdateRef == [e |-> "leaf", name |-> "pinned-change", fn |-> "update"]
PinnedFlagRef == [e |-> "leaf", name |-> "pinned-change", fn |-> "flag"]

VARIABLES
  phase,          \* "constructed", "open" (after onOpen), "closed" (after onClose)
  layoutPending,  \* the onLayoutReady callback is registered and has not run
  registry,       \* the handlers registered on the workspace and on the leaf
  listeners,      \* this.listeners
  leafPinned,     \* this.leaf.getViewState().pinned
  pinned,         \* this.pinned
  file,           \* this.file
  hasFit,         \* this.hasFit
  displayText,    \* this.displayText
  obsMarkmap,     \* this.obsMarkmap is set
  linkedLeaf,     \* this.linkedLeaf
  options,        \* this.options
  mmData,         \* this.markmapSVG.state.data
  mmOpts,         \* the options of this.markmapSVG
  pushedOpts,     \* the options object last given to the renderer (by
                  \* Markmap.create, then by each call of setData)
  styled,         \* the stroke widths are applied to the rendered elements
  editorText,     \* editor.getValue()
  debTimer,       \* the timer of debouncedEditorChange: ms left, or NoTimer
  styleTimers,    \* the pending setTimeout(applyWidths) timers: ms left
  cycles,         \* the update() calls that are suspended at an await
  nEnded,         \* the number of update() calls that have returned
  lastPushed,     \* the cycle whose setData was the last to succeed (0: none)
  rendered,       \* a setData succeeded since this.file last changed
  gap,            \* ms since the last delivered editor-change event (-1: none)
  burstEvents,    \* delivered editor-change events since the timer was last idle
  burst,          \* what the debounced callback did since the last delivered
                  \* event: 0 (not run), 1 (update called), -1 (pinned: nothing)
  sanIn,          \* sanitiser check: the input text
  sanOut,         \* sanitiser check: the results of the successive applications
  settings,       \* this.settings
  frontmatters,   \* the front-matter blocks the texts of the documents carry
  toolbar,        \* this.toolbar is set
  collapsed,      \* the node at depth 1 of the rendered tree is folded
  clickHandlers   \* the click handlers registered on the toggle circle of
                  \* that node

viewVars ==
  << phase, layoutPending, registry, listeners, leafPinned, pinned, file, hasFit,
     displayText, obsMarkmap, linkedLeaf, options >>
rendererVars == << mmData, mmOpts, pushedOpts, styled, lastPushed, rendered >>
timerVars == << debTimer, styleTimers >>
cycleVars == << cycles, nEnded >>
debounceHist == << gap, burstEvents, burst >>
sanVars == << sanIn, sanOut >>
envVars == << settings, frontmatters >>
userVars == << toolbar, collapsed, clickHandlers >>

vars ==
  << viewVars, rendererVars, editorText, timerVars, cycleVars, debounceHist,
     sanVars, envVars, userVars >>

\* the number of update() calls so far
started == nEnded + Cardinality(cycles)

\* constructor (lines 92-113), with setListenersUp
ViewInit ==
  /\ phase = "constructed"
  /\ layoutPending = FALSE
  /\ listeners = << EditorChangeRef, FileOpenRef, PinnedUpdateRef >>
  /\ registry = { EditorChangeRef, FileOpenRef, PinnedUpdateRef, PinnedFlagRef }
  /\ leafPinned = FALSE
  /\ pinned = FALSE
  /\ file = NoFile
  /\ hasFit = FALSE
  /\ displayText = Undefined
  /\ obsMarkmap = FALSE
  /\ linkedLeaf = NoLeaf
  /\ options = CreateOptions
  /\ mmData = NoData
  /\ mmOpts = CreateOptions
  /\ pushedOpts = CreateOptions
  /\ styled = FALSE
  /\ lastPushed = 0
  /\ rendered = FALSE
  /\ debTimer = NoTimer
  /\ styleTimers = <<>>
  /\ cycles = {}
  /\ nEnded = 0
  /\ gap = -1
  /\ burstEvents = 0
  /\ burst = 0
  /\ toolbar = TRUE
  /\ collapsed = FALSE
  /\ clickHandlers = 0

\* the view with the default settings, over documents without front-matter
Init ==
  /\ ViewInit
  /\ editorText = <<>>
  /\ sanIn = <<>>
  /\ sanOut = <<>>
  /\ settings = DefaultSettings
  /\ frontmatters = { NoFrontmatter }

\* ------------------------------------------------------ the update cycle

\* a test that lets the empty text through
FalsyUndefinedOnly(markdown) == markdown = Undefined

\* the test !markdown in update
Falsy(markdown) == markdown = Undefined \/ markdown = <<>>

\* transformMarkdown: the parser may throw, and updateInternalLinks needs
\* this.obsMarkmap, which onOpen sets
transformMarkdown(markdown, parsed) ==
  IF parsed /\ obsMarkmap THEN << "root", sanitiseMarkdown(markdown) >> ELSE Threw

\* the suspended calls of update that can come of c at await transformMarkdown:
\* the transformer parses the text or throws, and gives the front-matter
Transformed(c, markdown) ==
  { [c EXCEPT !.pc = "transform", !.md = markdown,
              !.root = transformMarkdown(markdown, parsed),
              !.fm = IF transformMarkdown(markdown, parsed) = Threw
                     THEN NoFrontmatter ELSE fm]
    : parsed \in BOOLEAN, fm \in frontmatters }

\* update(content), up to its first await or its return. f is this.file at
\* the call: readMarkDown passes it to cachedRead before the await.
update(content, f) ==
  /\ started < MaxCycles
  /\ IF content = Undefined
     THEN /\ cycles' = cycles \cup
                 { [id |-> started + 1, pc |-> "read", doc |-> f, md |-> Undefined,
                    root |-> NoData, fm |-> NoFrontmatter] }
          /\ UNCHANGED nEnded
     ELSE IF Falsy(content)
     THEN /\ cycles' = cycles
          /\ nEnded' = nEnded + 1
     ELSE /\ \E d \in Transformed([id |-> started + 1, pc |-> "read", doc |-> NoFile,
                                     md |-> Undefined, root |-> NoData,
                                     fm |-> NoFrontmatter], content) :
               cycles' = cycles \cup {d}
          /\ UNCHANGED nEnded

NoUpdate == UNCHANGED cycleVars

\* an update() call waits at await transformMarkdown(markdown): the promise is
\* already settled, so the call resumes in a microtask, before any other
\* event, timer or read completion is handled
MicrotaskPending == \E c \in cycles : c.pc = "transform"

\* readMarkDown resumes: cachedRead gave the text the document has then, or
\* threw (caught and logged: the result is undefined); then update goes on to
\* the test of markdown and to the call of transformMarkdown
ReadDone(c) ==
  /\ ~MicrotaskPending
  /\ c \in cycles /\ c.pc = "read"
  /\ \E readable \in BOOLEAN, t \in Texts :
       LET failed == ~readable \/ c.doc = NoFile
           markdown == IF failed THEN Undefined ELSE t
       IN  IF Falsy(markdown)
           THEN /\ cycles' = cycles \ {c}
                /\ nEnded' = nEnded + 1
           ELSE /\ \E d \in Transformed(c, markdown) :
                     cycles' = (cycles \ {c}) \cup {d}
                /\ UNCHANGED nEnded
  /\ UNCHANGED << viewVars, rendererVars, editorText, timerVars, debounceHist,
                  sanVars, envVars, userVars >>

\* the title set by update
Title(f) == << "Mind Map of", f >>

\* getDisplayText
getDisplayText == IF displayText = Undefined THEN << "Mind Map" >> ELSE displayText

\* update resumes after await transformMarkdown: the catch of update when the
\* promise was rejected; otherwise renderMarkmap (which catches what setData
\* throws), then the title (this.file.name throws when this.file is not set,
\* caught by update) and the timer of the styling pass. setData replaces the
\* tree: the fold state of the new tree comes from initialExpandLevel, and
\* the elements (with their click handlers) are kept only for an equal tree.
Render(c) ==
  /\ c \in cycles /\ c.pc = "transform"
  /\ cycles' = cycles \ {c}
  /\ nEnded' = nEnded + 1
  /\ UNCHANGED << phase, layoutPending, registry, listeners, leafPinned, pinned, file,
                  obsMarkmap, linkedLeaf, editorText, debTimer, debounceHist, sanVars,
                  envVars, toolbar >>
  /\ IF c.root = Threw
     THEN UNCHANGED << hasFit, displayText, options, rendererVars, styleTimers,
                       collapsed, clickHandlers >>
     ELSE \E drawn \in BOOLEAN :
          /\ options' = renderMarkmapOptions(settings, c.fm)
          /\ IF drawn
             THEN /\ mmData' = c.root
                  /\ pushedOpts' = PushedOptions(settings, c.fm)
                  /\ mmOpts' = setOptions(mmOpts, pushedOpts')
                  /\ styled' = FALSE
                  /\ lastPushed' = c.id
                  /\ rendered' = TRUE
                  /\ hasFit' = TRUE
                  /\ collapsed' = Folded(mmOpts'["initialExpandLevel"])
                  /\ clickHandlers' = IF c.root = mmData THEN clickHandlers ELSE 0
             ELSE UNCHANGED << rendererVars, hasFit, collapsed, clickHandlers >>
          /\ IF file = NoFile
             THEN UNCHANGED << displayText, styleTimers >>
             ELSE /\ displayText' = Title(file)
                  /\ styleTimers' = Append(styleTimers, StylingDelay)

\* ------------------------------------------------------------- the events

\* a debounce whose timer is due at once
debounceNoDelay(timer, timeout, resetTimer) == 0

\* obsidian's debounce(cb, timeout, resetTimer), called while its timer is
\* timer: the time left on the timer after the call. The callback runs when the
\* timer fires, never at the call; with resetTimer a call while the timer runs
\* moves the deadline to timeout after the call.
debounce(timer, timeout, resetTimer) ==
  IF timer = NoTimer \/ resetTimer THEN timeout ELSE timer

\* a debounced handler whose later calls leave the deadline where it is
debouncedNoReset ==
  IF debTimer = NoTimer THEN DebounceTimeout ELSE debTimer

\* debouncedEditorChange = debounce(editorChange, 300, true), called
debouncedEditorChange == debounce(debTimer, DebounceTimeout, TRUE)

Bump(n) == IF n < 2 THEN n + 1 ELSE n

\* a handler that forgets the pinned state of the leaf
viewStateNeverPinned == FALSE

\* const pinned = this.leaf.getViewState().pinned (lines 161 and 171)
viewStatePinned == leafPinned

\* the editor's text changes and the workspace triggers "editor-change"
EditorChange(t) ==
  /\ ~MicrotaskPending
  /\ editorText' = t
  /\ IF EditorChangeRef \in registry
     THEN /\ debTimer' = debouncedEditorChange
          /\ gap' = 0
          /\ burstEvents' = IF debTimer = NoTimer THEN 1 ELSE Bump(burstEvents)
          /\ burst' = 0
     ELSE UNCHANGED << debTimer, debounceHist >>
  /\ UNCHANGED << viewVars, rendererVars, styleTimers, cycleVars, sanVars, envVars, userVars >>

\* the timer of the debouncer fires: editorChange(editor) (lines 159-163)
editorChange ==
  /\ ~MicrotaskPending
  /\ debTimer = 0
  /\ debTimer' = NoTimer
  /\ IF ~viewStatePinned
     THEN /\ update(editorText, file)
          /\ burst' = 1
     ELSE /\ NoUpdate
          /\ burst' = -1
  /\ UNCHANGED << viewVars, rendererVars, editorText, styleTimers, gap, burstEvents,
                  sanVars, envVars, userVars >>

\* the workspace triggers "file-open" (lines 169-173)
FileOpen(f) ==
  /\ ~MicrotaskPending
  /\ FileOpenRef \in registry
  /\ file' = f
  /\ rendered' = IF f = file THEN rendered ELSE FALSE
  /\ IF ~viewStatePinned
     THEN update(Undefined, f)
     ELSE NoUpdate
  /\ UNCHANGED << phase, layoutPending, registry, listeners, leafPinned, pinned,
                  hasFit, displayText, obsMarkmap, linkedLeaf, options, mmData,
                  mmOpts, pushedOpts, styled, lastPushed, editorText, timerVars, debounceHist,
                  sanVars, envVars, userVars >>

\* leaf.setPinned(p), from pinCurrentLeaf, unPin or the host: the leaf
\* triggers "pinned-change" (line 112 and lines 174-176)
setPinned(p) ==
  /\ ~MicrotaskPending
  /\ p # leafPinned
  /\ leafPinned' = p
  /\ IF PinnedUpdateRef \in registry /\ ~p
     THEN update(Undefined, file)
     ELSE NoUpdate
  /\ pinned' = IF PinnedFlagRef \in registry THEN p ELSE pinned
  /\ UNCHANGED << phase, layoutPending, registry, listeners, file, hasFit,
                  displayText, obsMarkmap, linkedLeaf, options, rendererVars,
                  editorText, timerVars, debounceHist, sanVars, envVars, userVars >>

\* onOpen (lines 180-186)
onOpen ==
  /\ ~MicrotaskPending
  /\ phase = "constructed"
  /\ phase' = "open"
  /\ obsMarkmap' = TRUE
  /\ \E f \in Docs \cup {NoFile} :
       /\ file' = f
       /\ rendered' = IF f = file THEN rendered ELSE FALSE
  /\ layoutPending' = TRUE
  /\ UNCHANGED << registry, listeners, leafPinned, pinned, hasFit, displayText,
                  linkedLeaf, options, mmData, mmOpts, pushedOpts, styled, lastPushed, editorText,
                  timerVars, cycleVars, debounceHist, sanVars, envVars, userVars >>

\* the callback given to onLayoutReady (line 185)
LayoutReady ==
  /\ ~MicrotaskPending
  /\ layoutPending
  /\ layoutPending' = FALSE
  /\ update(Undefined, file)
  /\ UNCHANGED << phase, registry, listeners, leafPinned, pinned, file, hasFit,
                  displayText, obsMarkmap, linkedLeaf, options, rendererVars,
                  editorText, timerVars, debounceHist, sanVars, envVars, userVars >>

\* Events.offref(ref) on emitter: removes ref from the handlers of emitter
offref(emitter, reg, ref) == IF ref.e = emitter THEN reg \ {ref} ELSE reg

RECURSIVE OffrefAll(_, _, _)
OffrefAll(emitter, reg, refs) ==
  IF refs = <<>> THEN reg
  ELSE OffrefAll(emitter, offref(emitter, reg, Head(refs)), Tail(refs))

\* onClose (lines 188-190)
onClose ==
  /\ ~MicrotaskPending
  /\ phase = "open"
  /\ phase' = "closed"
  /\ registry' = OffrefAll("workspace", registry, listeners)
  /\ UNCHANGED << layoutPending, listeners, leafPinned, pinned, file, hasFit,
                  displayText, obsMarkmap, linkedLeaf, options, rendererVars,
                  editorText, timerVars, cycleVars, debounceHist, sanVars, envVars, userVars >>

\* the first leaf of the group whose view is a mind map view
FirstMindmapLeaf(group) ==
  LET ls == getGroupLeaves(group)
      hits == { i \in 1..Len(ls) : ls[i].type = MM_VIEW_TYPE }
  IN  IF hits = {} THEN NoLeaf ELSE ls[Min(hits)].id

\* updateLinkedLeaf(group, this) (lines 192-203)
updateLinkedLeaf(group) ==
  /\ ~MicrotaskPending
  /\ phase = "open"
  /\ IF group = NoGroup
     THEN linkedLeaf' = NoLeaf /\ NoUpdate
     ELSE /\ linkedLeaf' = FirstMindmapLeaf(group)
          /\ update(Undefined, file)
  /\ UNCHANGED << phase, layoutPending, registry, listeners, leafPinned, pinned, file,
                  hasFit, displayText, obsMarkmap, options, rendererVars, editorText,
                  timerVars, debounceHist, sanVars, envVars, userVars >>

\* a styling timer fires: applyWidths (lines 311-341) sets the stroke widths
\* and registers one more click handler on every circle there is
applyWidths ==
  /\ ~MicrotaskPending
  /\ mmData = NoData \/ clickHandlers < MaxHandlers
  /\ \E i \in 1..Len(styleTimers) :
       /\ styleTimers[i] = 0
       /\ styleTimers' = [ k \in 1..(Len(styleTimers) - 1) |->
                             IF k < i THEN styleTimers[k] ELSE styleTimers[k + 1] ]
  /\ styled' = TRUE
  /\ clickHandlers' = IF mmData = NoData THEN clickHandlers ELSE clickHandlers + 1
  /\ UNCHANGED << viewVars, mmData, mmOpts, pushedOpts, lastPushed, rendered,
                  editorText, debTimer, cycleVars, debounceHist, sanVars, envVars,
                  toolbar, collapsed >>

\* the user clicks the toggle circle of the node at depth 1: the renderer
\* folds or unfolds the node (an unfolded subtree is drawn anew, unstyled), and
\* every click handler registered by applyWidths (lines 337-339) sets a timer
CircleClick ==
  /\ ~MicrotaskPending
  /\ mmData # NoData
  /\ clickHandlers + Len(styleTimers) <= MaxHandlers
  /\ collapsed' = ~collapsed
  /\ styled' = IF collapsed THEN FALSE ELSE styled
  /\ styleTimers' = styleTimers \o [ i \in 1..clickHandlers |-> ToggleDelay ]
  /\ UNCHANGED << viewVars, mmData, mmOpts, pushedOpts, lastPushed, rendered, editorText,
                  debTimer, cycleVars, debounceHist, sanVars, envVars, toolbar,
                  clickHandlers >>

\* toggleToolbar (lines 134-141)
toggleToolbar ==
  /\ ~MicrotaskPending
  /\ toolbar' = ~toolbar
  /\ UNCHANGED << viewVars, rendererVars, editorText, timerVars, cycleVars,
                  debounceHist, sanVars, envVars, collapsed, clickHandlers >>

\* collapseAll (lines 213-218): setData over the tree the renderer has, with
\* this.options and initialExpandLevel 0
collapseAll ==
  /\ ~MicrotaskPending
  /\ pushedOpts' = [initialExpandLevel |-> 0] @@ options
  /\ mmOpts' = setOptions(mmOpts, pushedOpts')
  /\ collapsed' = IF mmData = NoData THEN collapsed
                  ELSE Folded(mmOpts'["initialExpandLevel"])
  /\ UNCHANGED << viewVars, mmData, styled, lastPushed, rendered, editorText,
                  timerVars, cycleVars, debounceHist, sanVars, envVars, toolbar,
                  clickHandlers >>

\* time passes by one tick, unless a timer is due
TickPasses ==
  /\ ~MicrotaskPending
  /\ debTimer # 0
  /\ \A i \in 1..Len(styleTimers) : styleTimers[i] # 0
  /\ debTimer # NoTimer \/ styleTimers # <<>> \/ (gap # -1 /\ gap < MaxGapTicks * Tick)
  /\ debTimer' = IF debTimer = NoTimer THEN NoTimer ELSE debTimer - Tick
  /\ styleTimers' = [ i \in 1..Len(styleTimers) |-> styleTimers[i] - Tick ]
  /\ gap' = IF gap = -1 THEN -1
            ELSE IF gap + Tick > MaxGapTicks * Tick THEN gap ELSE gap + Tick
  /\ UNCHANGED << viewVars, rendererVars, editorText, cycleVars, burstEvents, burst,
                  sanVars, envVars, userVars >>

Next ==
  \/ onOpen
  \/ LayoutReady
  \/ onClose
  \/ \E t \in Texts : EditorChange(t)
  \/ editorChange
  \/ \E f \in Docs \cup {NoFile} : FileOpen(f)
  \/ \E p \in BOOLEAN : setPinned(p)
  \/ \E g \in Groups \cup {NoGroup} : updateLinkedLeaf(g)
  \/ \E c \in cycles : ReadDone(c)
  \/ \E c \in cycles : Render(c)
  \/ applyWidths
  \/ TickPasses

Spec == Init /\ [][Next]_vars

\* ------------------------- the view and its renderer under the user's hands

\* the update cycles of the view, with the user's clicks on a toggle circle
\* and on the menu
NextView ==
  \/ onOpen
  \/ LayoutReady
  \/ \E f \in Docs \cup {NoFile} : FileOpen(f)
  \/ \E p \in BOOLEAN : setPinned(p)
  \/ \E c \in cycles : ReadDone(c)
  \/ \E c \in cycles : Render(c)
  \/ applyWidths
  \/ CircleClick
  \/ toggleToolbar
  \/ TickPasses

SpecView == Init /\ [][NextView]_vars

\* ------------------------------------- the options that reach the renderer

\* the view with any of the settings, over documents with front-matter
InitOptions ==
  /\ ViewInit
  /\ editorText = <<>>
  /\ sanIn = <<>>
  /\ sanOut = <<>>
  /\ settings \in SettingsSet
  /\ frontmatters = Frontmatters

NextOptions ==
  \/ onOpen
  \/ LayoutReady
  \/ \E f \in Docs \cup {NoFile} : FileOpen(f)
  \/ \E c \in cycles : ReadDone(c)
  \/ \E c \in cycles : Render(c)
  \/ collapseAll

SpecOptions == InitOptions /\ [][NextOptions]_vars

\* --------------------------------------------- the sanitiser on its own

SanInit ==
  /\ ViewInit
  /\ editorText = <<>>
  /\ settings = DefaultSettings
  /\ frontmatters = { NoFrontmatter }
  /\ sanIn \in SanInputs
  /\ sanOut = <<>>

\* sanitiseMarkdown applied to the input, then to its own result
Sanitise ==
  /\ Len(sanOut) < 2
  /\ sanOut' = Append(sanOut, sanitiseMarkdown(IF sanOut = <<>> THEN sanIn
                                                ELSE sanOut[Len(sanOut)]))
  /\ UNCHANGED << sanIn, viewVars, rendererVars, editorText, timerVars, cycleVars,
                  debounceHist, envVars, userVars >>

SanNext == Sanitise

SpecSan == SanInit /\ [][SanNext]_vars

\* ------------------------------------------------------- steps, for claims

\* the workspace delivers an editor-change event to the view
EditorChangeDelivered == EditorChangeRef \in registry /\ \E t \in Texts : EditorChange(t)

\* the workspace delivers a file-open event to the view
FileOpenDelivered == \E f \in Docs \cup {NoFile} : FileOpen(f)

\* the pinned state of the leaf changes
PinnedChange == \E p \in BOOLEAN : setPinned(p)

\* the update() calls that are suspended before the step and gone after it
EndedCycles == { c \in cycles : \A d \in cycles' : d.id # c.id }

\* the update() calls that the step has started and left suspended
NewCycles == { d \in cycles' : \A c \in cycles : c.id # d.id }

\* what the renderer shows, and the title
Displayed == << mmData, mmOpts, displayText >>

\* ---------------------------------------------------------------- claims

\* C1: while the leaf is pinned, no editor-change event, no run of the
\* debounced callback and no file-open event starts an update cycle; when the
\* leaf of a view that is not closed goes from pinned to unpinned, that step
\* starts exactly one update cycle, which reads the document this.file names
C1_PinnedGate ==
  [][ /\ (leafPinned /\ (EditorChangeDelivered \/ editorChange \/ FileOpenDelivered))
         => started' = started
      /\ (leafPinned /\ ~leafPinned' /\ phase # "closed")
         => /\ started' = started + 1
            /\ \E c \in NewCycles :
                 /\ NewCycles = {c}
                 /\ c.id = started'
                 /\ c.pc = "read"
                 /\ c.doc = file' ]_vars

\* C1 witness: the debounced callback ran while the leaf was pinned and did
\* nothing, a file was opened meanwhile, and the unpinning has started a cycle
\* that reads the document now bound
C1_Witness ==
  /\ phase = "open"
  /\ burst = -1
  /\ ~leafPinned
  /\ file # NoFile
  /\ started = 1
  /\ \E c \in cycles : c.pc = "read" /\ c.doc = file

\* C2: a cycle started earlier never pushes its tree after a cycle started
\* later has pushed its own
C2_NewestWins == [][lastPushed' >= lastPushed]_vars

\* C3: with the leaf unpinned, the debounced callback starts no cycle within
\* 300 ms of the latest editor-change event (so an event that another follows
\* within the window starts none of its own), and it starts exactly one cycle
\* 300 ms after the latest event, with the text of that event; an event that
\* comes more than 300 ms after the one before finds that one's cycle started
C3_Debounce ==
  /\ []( /\ (gap >= 0 /\ gap < DebounceTimeout) => burst = 0
         /\ gap > DebounceTimeout => burst # 0 )
  /\ [][ (editorChange /\ ~leafPinned)
         => /\ gap = DebounceTimeout
            /\ burst = 0 /\ burst' = 1
            /\ started' = started + 1
            /\ IF editorText = <<>> THEN NewCycles = {}
               ELSE \E c \in NewCycles : NewCycles = {c} /\ c.md = editorText ]_vars

\* C3 witness: two events in one window, and one cycle started with the text
\* of the second, 300 ms after it
C3_Witness ==
  /\ phase = "open"
  /\ burstEvents = 2
  /\ burst = 1
  /\ gap = DebounceTimeout
  /\ started = 1
  /\ \E c \in cycles : c.id = 1 /\ c.md = editorText

\* C4 as claimed: an editor-change event that arrives while the debouncer is
\* idle and the leaf unpinned starts an update cycle at once
C4_LeadingEdge ==
  [][ (EditorChangeDelivered /\ debTimer = NoTimer /\ ~leafPinned /\ started < MaxCycles)
      => started' = started + 1 ]_vars

\* C4 as amended: an editor-change event starts no update cycle when it
\* arrives, whether the debouncer is idle or not: it sets the deadline to
\* 300 ms after itself; when the deadline elapses with the leaf unpinned, one
\* update cycle starts and the debouncer is idle again
C4_TrailingEdge ==
  /\ [][ EditorChangeDelivered
         => started' = started /\ debTimer' = DebounceTimeout ]_vars
  /\ [][ editorChange
         => /\ debTimer = 0 /\ debTimer' = NoTimer
            /\ started' = (IF leafPinned THEN started ELSE started + 1) ]_vars

\* C4 witness: an event has arrived at an idle debouncer of an open, unpinned
\* view, and no update cycle has started
C4_Witness ==
  /\ phase = "open"
  /\ ~leafPinned
  /\ burstEvents = 1
  /\ gap = 0
  /\ debTimer = DebounceTimeout
  /\ started = 0

\* C5: a file-open event for another document on an unpinned view binds
\* this.file to that document and resets hasFit to false
C5_FileOpenResetsFit ==
  [][ \A f \in Docs :
        (FileOpen(f) /\ f # file /\ ~leafPinned) => (file' = f /\ hasFit' = FALSE) ]_vars

\* C6: a setData that succeeds is followed by a call of fit exactly when it is
\* the first to succeed since this.file was bound to its document
C6_FitOncePerBinding ==
  [][ lastPushed' # lastPushed => (~hasFit <=> ~rendered) ]_vars

\* C7: a step in which an update cycle ends by an exception (the read, the
\* transform, setData or the title threw) leaves the displayed tree, the
\* renderer's options and the title as they were
C7_FailureKeepsDisplay ==
  [][ \A c \in EndedCycles :
        ( \/ c.pc = "read"
          \/ c.root = Threw
          \/ lastPushed' # c.id
          \/ file = NoFile )
        => UNCHANGED Displayed ]_vars

\* C8: a step in which an update cycle ends without having obtained a text
\* (an empty or undefined markdown) calls neither setData nor fit, leaves the
\* title as it was and schedules no styling pass
C8_NoTextNoRender ==
  [][ ( /\ nEnded' = nEnded + 1
        /\ \/ (cycles' = cycles /\ editorText = <<>>)
           \/ \E c \in EndedCycles : c.md \in { Undefined, <<>> } )
      => UNCHANGED << mmData, mmOpts, lastPushed, hasFit, rendered, displayText,
                      styleTimers, styled >> ]_vars

\* C8 witness: the debounced callback has called update with the empty text
\* of the editor, the call has returned, and nothing was rendered, titled or
\* scheduled
C8_Witness ==
  /\ phase = "open"
  /\ editorText = <<>>
  /\ burst = 1
  /\ cycles = {}
  /\ nEnded = 1
  /\ mmData = NoData
  /\ displayText = Undefined
  /\ styleTimers = <<>>

\* C9: once the view is closed, none of its subscriptions is still
\* registered, and no editor-change, file-open or pinned-change event and no
\* run of the debounced callback starts an update cycle
C9_NoTriggerAfterClose ==
  /\ [](phase = "closed" => registry = {})
  /\ [][ ( /\ phase = "closed"
           /\ EditorChangeDelivered \/ FileOpenDelivered \/ PinnedChange \/ editorChange )
         => started' = started ]_vars

\* C10: the result of the sanitiser has the same number of fences as the
\* input, each fence with the same run of backticks, and the language tag of
\* every fence of the result is empty or on the allow-list
C10_FencesSanitised ==
  Len(sanOut) >= 1 =>
    LET F == Fences(sanIn)
        G == Fences(sanOut[1])
    IN  /\ DOMAIN F = DOMAIN G
        /\ \A k \in DOMAIN G :
             /\ G[k].run = F[k].run
             /\ G[k].tag \in allowedLanguages \cup { <<>> }

\* C11: the sanitiser is idempotent: applied to its own result, it gives that
\* result again
C11_SanitiserIdempotent ==
  Len(sanOut) = 2 => sanOut[2] = sanOut[1]

\* C17: updateLinkedLeaf with the null group clears the linked leaf; with
\* another group the linked leaf becomes the first leaf of the group whose view
\* is a mind map view, or none when the group has no such leaf; either way the
\* call then starts exactly one update cycle
C17_LinkThenOneUpdate ==
  [][ \A g \in Groups \cup {NoGroup} :
        updateLinkedLeaf(g)
        => /\ started' = started + 1
           /\ IF g = NoGroup THEN linkedLeaf' = NoLeaf
              ELSE LET ls == getGroupLeaves(g)
                       hits == { i \in 1..Len(ls) : ls[i].type = MM_VIEW_TYPE }
                   IN  IF hits = {} THEN linkedLeaf' = NoLeaf
                       ELSE \E i \in hits : /\ \A j \in hits : i <= j
                                            /\ linkedLeaf' = ls[i].id ]_vars

\* C18: the step by which an update cycle pushes its tree to the renderer
\* also sets the title, to the name of the bound document or to the generic
\* title when no document is bound, and schedules a styling pass
C18_PushThenTitleAndStyling ==
  [][ lastPushed' # lastPushed
      => /\ (IF displayText' = Undefined THEN << "Mind Map" >> ELSE displayText')
              = (IF file = NoFile THEN << "Mind Map" >> ELSE Title(file))
         /\ styleTimers' = Append(styleTimers, StylingDelay) ]_vars

\* C19: when a cycle that read a document pushes its tree and leaves no
\* update cycle in flight, the title names the document that cycle read
C19_TitleNamesShownDocument ==
  [][ \A c \in EndedCycles :
        (lastPushed' = c.id /\ lastPushed' # lastPushed /\ cycles' = {} /\ c.doc # NoFile)
        => displayText' = Title(c.doc) ]_vars

\* the cycles that push their tree to the renderer in the step
Pushing == { c \in EndedCycles : lastPushed' = c.id /\ lastPushed' # lastPushed }

\* C12: in the colouring mode "single", once a tree has been pushed, the
\* colour function the renderer holds gives the configured default colour for
\* a node at every depth
C12_SingleColour ==
  (settings.coloring = "single" /\ lastPushed # 0)
  => \A d \in 0..MaxDepth :
       ColorsAt(mmOpts["color"], settings, d) = { settings.defaultColor }

\* C13: in the colouring mode "depth", the colour function a cycle pushes
\* gives a node at depth d the colour palette[d mod length] of the palette the
\* front-matter declares; without such a palette it gives the d-th of the
\* three configured colours for d < 3 and the default colour for d >= 3
C13_DepthColour ==
  [][ \A c \in Pushing :
        settings.coloring = "depth"
        => \A d \in 0..MaxDepth :
             LET palette == IF "color" \in DOMAIN c.fm THEN c.fm["color"] ELSE <<>>
                 configured == << settings.color1, settings.color2, settings.color3 >>
             IN  ColorsAt(mmOpts'["color"], settings, d) =
                   { IF palette # <<>> THEN palette[(d % Len(palette)) + 1]
                     ELSE IF d < 3 THEN configured[d + 1]
                     ELSE settings.defaultColor } ]_vars

\* C13 witness: in the mode "depth" a tree has been pushed with the palette
\* #111, #222 of its front-matter, which gives #111, #222, #111, #222 for the
\* depths 0 to 3
C13_Witness ==
  /\ settings.coloring = "depth" /\ lastPushed # 0 /\ mmData # NoData
  /\ mmOpts["color"] = ApplyColorClosure(<< "#111", "#222" >>)
  /\ [ d \in 0..3 |-> ColorsAt(mmOpts["color"], settings, d) ]
       = [ d \in 0..3 |-> { IF d % 2 = 0 THEN "#111" ELSE "#222" } ]

\* C14: in the options object a cycle pushes, every key that the preferences
\* and the front-matter both set has the front-matter value (for the colour:
\* the colour function is made of the front-matter palette), and every value
\* comes from the preferences or from the front-matter of this cycle: the
\* object holds nothing of an earlier cycle
C14_FrontmatterWins ==
  [][ \A c \in Pushing :
        LET keys == DOMAIN c.fm \ {"color"}
        IN  /\ \A k \in keys \cap DOMAIN RenderOptions : pushedOpts'[k] = c.fm[k]
            /\ "color" \in DOMAIN c.fm
               => /\ "color" \in DOMAIN pushedOpts'
                  /\ pushedOpts'["color"].colors = c.fm["color"]
            /\ DOMAIN pushedOpts' \ {"color"} = DOMAIN RenderOptions \cup keys
            /\ \A k \in DOMAIN pushedOpts' \ {"color"} :
                 pushedOpts'[k] = IF k \in keys THEN c.fm[k] ELSE RenderOptions[k]
            /\ "color" \in DOMAIN pushedOpts'
               => pushedOpts'["color"].colors
                    = (IF "color" \in DOMAIN c.fm THEN c.fm["color"] ELSE <<>>) ]_vars

\* C14 witness: the second cycle of a view has pushed options in which the
\* width of its front-matter replaces the width of the preferences
C14_Witness ==
  /\ lastPushed = 2 /\ cycles = {} /\ mmData # NoData
  /\ RenderOptions["maxWidth"] = 0 /\ pushedOpts["maxWidth"] = 300
  /\ mmOpts["maxWidth"] = 300

\* C15: a click on a toggle circle that has been through at least one
\* styling pass schedules exactly one styling pass
C15_OneClickOnePass ==
  [][ (CircleClick /\ clickHandlers >= 1)
      => Len(styleTimers') = Len(styleTimers) + 1 ]_vars

\* C16: a step that ends an update cycle leaves the pinned flag and the
\* toolbar as they were, and a node the user had folded is still folded
C16_CycleKeepsUserState ==
  [][ EndedCycles # {}
      => /\ pinned' = pinned
         /\ toolbar' = toolbar
         /\ collapsed => collapsed' ]_vars

\* C20: when the most recently started cycle has pushed its tree and no cycle
\* is in flight, Collapse All leaves the tree, the pinned flag, the has-fitted
\* flag and the document as they are, and every option of the renderer other
\* than the expand level keeps its value
C20_CollapseAllKeepsOptions ==
  [][ (collapseAll /\ cycles = {} /\ lastPushed > 0 /\ lastPushed = started)
      => /\ mmData' = mmData
         /\ UNCHANGED << pinned, hasFit, file >>
         /\ \A k \in DOMAIN mmOpts \ {"initialExpandLevel"} :
              k \in DOMAIN mmOpts' /\ mmOpts'[k] = mmOpts[k] ]_vars

====
